---- MODULE Spec2Model ----
(***************************************************************************)
(* A model of audio_merger.py (CraigAudioMerger): one run of               *)
(* process_all_craig_folders over a base directory, with the external      *)
(* tools (ffmpeg, ffprobe), the filesystem, the clock and the interactive  *)
(* prompt as the environment.                                              *)
(*                                                                         *)
(* Text is modelled as a sequence of one-character strings, so that the    *)
(* regular expressions, the natural sort key and the filename              *)
(* sanitisation are computed character by character as the code does.      *)
(***************************************************************************)
EXTENDS Integers, Sequences, FiniteSets, TLC

VARIABLES
    pc,               \* position inside process_all_craig_folders
    output_format,    \* argument of process_all_craig_folders
    delete_originals, \* argument
    dry_run,          \* argument
    ffmpegProbe,      \* what `ffmpeg -version` did (check_ffmpeg)
    craig_folders,    \* result of detect_craig_folders
    idx,              \* position of the `for folder in craig_folders` loops
    successful,       \* counter of process_all_craig_folders
    failed,           \* counter of process_all_craig_folders
    summary,          \* the logged summary, None until it is logged
    reports,          \* the dry-run report lines logged so far
    clock,            \* wall clock, in whole seconds
    job,              \* the merge_audio_files call in progress (or the last one)
    results,          \* what each merge_audio_files call returned, in call order
    quality_level,    \* argument of process_all_craig_folders
    processed,        \* folders merge_audio_files was called on, in call order
    outputs,          \* output files ffmpeg has written in this run
    overwritten,      \* an output written earlier in this run was written again
    deleted,          \* input files unlinked by delete_originals
    merged,           \* the merges that passed `success and exists`: position, output
    launchFailed,     \* loop positions whose subprocess.Popen raised
    mixLaunched,      \* an ffmpeg mixing process was started in this run
    probeLaunched     \* an ffprobe process was started in this run

vars == <<pc, output_format, delete_originals, dry_run, ffmpegProbe,
          craig_folders, idx, successful, failed, summary, reports, clock, job,
          results, quality_level, processed, outputs, overwritten,
          deleted, merged, launchFailed, mixLaunched, probeLaunched>>

-----------------------------------------------------------------------------
(* Bounds of the model *)

\* Largest number of entries the base directory holds.
MaxEntries == 2

\* Largest number of diagnostic lines one ffmpeg process writes.
MaxLines == 2

\* Last second of the wall clock (the clock starts at 0).
MaxTime == 1

-----------------------------------------------------------------------------
(* Characters and text *)

None == "None"

Digits == <<"0", "1", "2", "3", "4", "5", "6", "7", "8", "9">>

UpperChars == <<"A", "B", "C", "D", "E", "F", "G", "H", "I", "J", "K", "L", "M",
                "N", "O", "P", "Q", "R", "S", "T", "U", "V", "W", "X", "Y", "Z">>

LowerChars == <<"a", "b", "c", "d", "e", "f", "g", "h", "i", "j", "k", "l", "m",
                "n", "o", "p", "q", "r", "s", "t", "u", "v", "w", "x", "y", "z">>

\* The characters of the model in code-point order (Python compares str by
\* code point): ' ' < '-' < '.' < '/' < digits < upper case < '_' < lower case.
Ascii == <<" ", "-", ".", "/">> \o Digits \o UpperChars \o <<"_">> \o LowerChars

Range(s) == {s[i] : i \in 1..Len(s)}

IndexOf(s, c) == CHOOSE i \in 1..Len(s) : s[i] = c

Ord(c) == IndexOf(Ascii, c)

IsDigit(c) == c \in Range(Digits)

\* str.lower() on one character
LowerChar(c) == IF c \in Range(UpperChars) THEN LowerChars[IndexOf(UpperChars, c)] ELSE c

\* str.lower()
Lower(s) == [i \in 1..Len(s) |-> LowerChar(s[i])]

\* int(s) of a run of decimal digits
RECURSIVE ToInt(_)
ToInt(s) ==
    IF s = <<>> THEN 0
    ELSE 10 * ToInt(SubSeq(s, 1, Len(s) - 1)) + (IndexOf(Digits, s[Len(s)]) - 1)

\* The character class [a-zA-Z0-9_-] of craig_pattern and generate_output_filename
IsSafeChar(c) ==
    c \in Range(LowerChars) \cup Range(UpperChars) \cup Range(Digits) \cup {"_", "-"}

StartsWith(s, p) == Len(s) >= Len(p) /\ SubSeq(s, 1, Len(p)) = p

EndsWith(s, p) == Len(s) >= Len(p) /\ SubSeq(s, Len(s) - Len(p) + 1, Len(s)) = p

CraigPrefix == <<"c", "r", "a", "i", "g", "-">>

\* self.craig_pattern.match(name): re.match anchors at the start only, so the
\* name need only begin with "craig-" and one character of the class.
craig_pattern(name) ==
    /\ StartsWith(name, CraigPrefix)
    /\ Len(name) > Len(CraigPrefix)
    /\ IsSafeChar(name[Len(CraigPrefix) + 1])

\* self.supported_formats
supported_formats == << <<".", "a", "a", "c">>, <<".", "m", "p", "3">>,
                        <<".", "w", "a", "v">>, <<".", "m", "4", "a">> >>

-----------------------------------------------------------------------------
(* The filesystem the run is started on *)

\* The entries a base directory may hold. Each has a name, is a directory or a
\* regular file, and (a directory) holds files.
Entries == [
    e1 |-> [name  |-> <<"c", "r", "a", "i", "g", "-", "a", " ", "b">>,
            isdir |-> TRUE,
            files |-> { <<"f", "2", ".", "a", "a", "c">>,
                        <<"f", "1", "0", ".", "a", "a", "c">>,
                        <<"F", "2", ".", "a", "a", "c">> }],
    e2 |-> [name  |-> <<"c", "r", "a", "i", "g", "-", "a", "_", "b">>,
            isdir |-> TRUE,
            files |-> { <<"f", "1", ".", "m", "p", "3">> }],
    e3 |-> [name  |-> <<"c", "r", "a", "i", "g", "-", "s", "1">>,
            isdir |-> TRUE,
            files |-> { <<"n", ".", "t", "x", "t">> }],
    e4 |-> [name  |-> <<"n", "o", "t", "-", "c", "r", "a", "i", "g">>,
            isdir |-> TRUE,
            files |-> { <<"f", "1", ".", "a", "a", "c">> }],
    e5 |-> [name  |-> <<"c", "r", "a", "i", "g", "-", "x">>,
            isdir |-> FALSE,
            files |-> {}],
    e6 |-> [name  |-> <<"c", "r", "a", "i", "g", "-">>,
            isdir |-> TRUE,
            files |-> { <<"f", "1", ".", "a", "a", "c">> }] ]

EntryIds == DOMAIN Entries

\* Sequences over S without repetition, of length at most n
RECURSIVE DistinctSeqs(_, _)
DistinctSeqs(S, n) ==
    IF n = 0 THEN {<<>>}
    ELSE LET shorter == DistinctSeqs(S, n - 1)
         IN  shorter \cup UNION {{Append(s, x) : x \in S \ Range(s)} : s \in shorter}

\* str(path) of a file of a folder
PathOf(folder, file) == Entries[folder].name \o <<"/">> \o file

-----------------------------------------------------------------------------
(* scan_audio_files: glob per supported extension, then the natural sort *)

\* Length of the longest prefix of s made of digits (digit = TRUE) or of
\* non-digits (digit = FALSE)
RECURSIVE RunLen(_, _)
RunLen(s, digit) ==
    IF s = <<>> \/ IsDigit(s[1]) # digit THEN 0 ELSE 1 + RunLen(Tail(s), digit)

\* re.split(r"(\d+)", name): the runs of non-digits and of digits, alternating,
\* the first and the last a (possibly empty) run of non-digits
RECURSIVE SplitDigits(_)
SplitDigits(s) ==
    LET n == RunLen(s, FALSE)
        rest == SubSeq(s, n + 1, Len(s))
        d == RunLen(rest, TRUE)
    IN  IF rest = <<>> THEN <<SubSeq(s, 1, n)>>
        ELSE <<SubSeq(s, 1, n), SubSeq(rest, 1, d)>>
                 \o SplitDigits(SubSeq(rest, d + 1, Len(rest)))

\* str.isdigit() on the text of the model (false on the empty string)
IsDigitStr(s) == s # <<>> /\ \A i \in 1..Len(s) : IsDigit(s[i])

\* int(s) if s.isdigit() else s.lower()
KeyPart(s) ==
    IF IsDigitStr(s) THEN [isInt |-> TRUE, n |-> ToInt(s), s |-> <<>>]
    ELSE [isInt |-> FALSE, n |-> 0, s |-> Lower(s)]

\* The sort key of scan_audio_files
NaturalKey(name) ==
    LET parts == SplitDigits(name) IN [i \in 1..Len(parts) |-> KeyPart(parts[i])]

\* Python's str < str: by code point, a proper prefix first
RECURSIVE StrLess(_, _)
StrLess(a, b) ==
    IF b = <<>> THEN FALSE
    ELSE IF a = <<>> THEN TRUE
    ELSE IF a[1] # b[1] THEN Ord(a[1]) < Ord(b[1])
    ELSE StrLess(Tail(a), Tail(b))

\* Comparison of two key parts. The parts of a key alternate str, int, str, ...
\* from a str, so the parts compared are always of one type.
PartLess(a, b) == IF a.isInt /\ b.isInt THEN a.n < b.n ELSE StrLess(a.s, b.s)

\* Python's list < list
RECURSIVE KeyLess(_, _)
KeyLess(a, b) ==
    IF b = <<>> THEN FALSE
    ELSE IF a = <<>> THEN TRUE
    ELSE IF a[1] # b[1] THEN PartLess(a[1], b[1])
    ELSE KeyLess(Tail(a), Tail(b))

\* A sort without the key: names compared as plain text
SortLessPlain(a, b) == StrLess(a, b)

\* The order list.sort(key=...) puts two names in
SortLess(a, b) == KeyLess(NaturalKey(a), NaturalKey(b))

\* x placed into the sorted sequence s after every element not greater than it
RECURSIVE InsertSorted(_, _)
InsertSorted(s, x) ==
    IF s = <<>> THEN <<x>>
    ELSE IF SortLess(x, s[1]) THEN <<x>> \o s
    ELSE <<s[1]>> \o InsertSorted(Tail(s), x)

\* list.sort(key=...): stable
RECURSIVE StableSort(_)
StableSort(s) ==
    IF s = <<>> THEN <<>>
    ELSE InsertSorted(StableSort(SubSeq(s, 1, Len(s) - 1)), s[Len(s)])

\* folder.glob("*" + ext) over the folder's entries in enumeration order
Glob(enum, ext) == SelectSeq(enum, LAMBDA f : EndsWith(f, ext))

RECURSIVE GlobAll(_, _)
GlobAll(enum, exts) ==
    IF exts = <<>> THEN <<>> ELSE Glob(enum, Head(exts)) \o GlobAll(enum, Tail(exts))

\* scan_audio_files(folder), the folder enumerated in the order enum
scan_audio_files(enum) == StableSort(GlobAll(enum, supported_formats))

\* The orders in which a directory holding the files S may be enumerated
Enumerations(S) == {s \in DistinctSeqs(S, Cardinality(S)) : Len(s) = Cardinality(S)}

-----------------------------------------------------------------------------
(* generate_output_filename *)

\* re.sub(r"^craig-", "", s)
StripCraig(s) ==
    IF StartsWith(s, CraigPrefix) THEN SubSeq(s, Len(CraigPrefix) + 1, Len(s)) ELSE s

\* re.sub(r"[^a-zA-Z0-9_-]", "_", s)
Sanitize(s) == [i \in 1..Len(s) |-> IF IsSafeChar(s[i]) THEN s[i] ELSE "_"]

\* time.strftime("%Y%m%d_%H%M%S") at second `now`: one piece of text per second
Timestamp(now) == ToString(now)

\* generate_output_filename(craig_folder, output_format) called at second `now`
generate_output_filename(folder_name, fmt, now) ==
    <<"merged_">> \o Sanitize(StripCraig(folder_name))
        \o <<"_", Timestamp(now), ".", fmt>>

-----------------------------------------------------------------------------
(* build_ffmpeg_command *)

\* "[i:a]"
StreamLabel(i) == "[" \o ToString(i) \o ":a]"

LoudnormFilter == "loudnorm=I=-16:TP=-1.5:LRA=11"

AmixFilter(n) == "amix=inputs=" \o ToString(n) \o ":duration=longest:dropout_transition=2"

\* filter_complex for num_inputs inputs, as its pieces of text in order
FilterComplex(num_inputs) ==
    IF num_inputs = 1 THEN <<StreamLabel(0), LoudnormFilter, "[out]">>
    ELSE [i \in 1..num_inputs |-> StreamLabel(i - 1)]
             \o <<AmixFilter(num_inputs), ",", LoudnormFilter, "[out]">>

\* for file in input_files: cmd.extend(["-i", str(file)])
RECURSIVE InputArgs(_)
InputArgs(paths) ==
    IF paths = <<>> THEN <<>>
    ELSE << <<"-i">>, Head(paths) >> \o InputArgs(Tail(paths))

quality_map == [low |-> "4", medium |-> "2", high |-> "0"]

codec_map == [mp3 |-> "libmp3lame", wav |-> "pcm_s16le", ogg |-> "libvorbis", aac |-> "aac"]

\* output_file.stem: the name without its last suffix
Stem(filename) == SubSeq(filename, 1, Len(filename) - 2)

\* The argument list build_ffmpeg_command assembles for an encoder `codec`.
\* The date tag is time.strftime("%Y-%m-%d"), here one fixed piece of text.
CommandArgs(paths, output_file, codec, quality) ==
    << <<"ffmpeg">>, <<"-y">> >>
        \o InputArgs(paths)
        \o << <<"-filter_complex">>, FilterComplex(Len(paths)),
              <<"-map">>, <<"[out]">>,
              <<"-c:a">>, <<codec>>,
              <<"-q:a">>,
              <<IF quality \in DOMAIN quality_map THEN quality_map[quality] ELSE "2">>,
              <<"-ar">>, <<"44100">>, <<"-ac">>, <<"2">>,
              <<"-avoid_negative_ts">>, <<"make_zero">>,
              <<"-metadata">>,
              <<"title=Merged ">> \o StripCraig(Stem(output_file)),
              <<"-metadata">>, <<"artist=Craig Recording">>,
              <<"-metadata">>, <<"date=today">>,
              output_file >>

\* build_ffmpeg_command without the check of the format: the format's own
\* name is passed on as the encoder
build_ffmpeg_command_unchecked(paths, output_file, fmt, quality) ==
    IF paths = <<>>
    THEN [raised |-> "ValueError", cmd |-> <<>>]
    ELSE [raised |-> None,
          cmd |-> CommandArgs(paths, output_file,
                              IF fmt \in DOMAIN codec_map THEN codec_map[fmt] ELSE fmt,
                              quality)]

\* build_ffmpeg_command(input_files, output_file, output_format, quality_level):
\* the command as a list of arguments, or the ValueError it raises
build_ffmpeg_command(paths, output_file, fmt, quality) ==
    IF paths = <<>>
    THEN [raised |-> "ValueError", cmd |-> <<>>]
    ELSE IF fmt \notin DOMAIN codec_map
    THEN [raised |-> "ValueError", cmd |-> <<>>]
    ELSE [raised |-> None,
          cmd |-> CommandArgs(paths, output_file, codec_map[fmt], quality)]

-----------------------------------------------------------------------------
(* check_ffmpeg *)

\* What running ["ffmpeg", "-version"] may do: the binary is missing
\* (FileNotFoundError), it exits nonzero (CalledProcessError), or it prints
\* text in which r"ffmpeg version (\d+\.\d+)" matches "major.minor" or nothing.
FfmpegOutcomes ==
    { [kind |-> "notfound", major |-> <<>>, minor |-> <<>>],
      [kind |-> "nonzero",  major |-> <<>>, minor |-> <<>>],
      [kind |-> "nomatch",  major |-> <<>>, minor |-> <<>>],
      [kind |-> "version",  major |-> <<"3">>, minor |-> <<"4">>],
      [kind |-> "version",  major |-> <<"3">>, minor |-> <<"1", "0">>],
      [kind |-> "version",  major |-> <<"4">>, minor |-> <<"0">>],
      [kind |-> "version",  major |-> <<"1", "0">>, minor |-> <<"2">>] }

Unchecked == [kind |-> "unchecked", major |-> <<>>, minor |-> <<>>]

\* The major version check_ffmpeg requires (version < 4.0)
MinMajor == 4

\* The version check with the bound one major version too low
VersionTooOldBelow3(major, minor) == ToInt(major) < MinMajor - 1

\* float("major.minor") < MinMajor.0: the fraction is in [0, 1)
VersionTooOld(major, minor) == ToInt(major) < MinMajor

\* check_ffmpeg() on what `ffmpeg -version` did
check_ffmpeg(r) ==
    IF r.kind = "version" THEN ~VersionTooOld(r.major, r.minor) ELSE FALSE

-----------------------------------------------------------------------------
(* get_audio_info and get_total_duration *)

\* What running ffprobe on one file may do: the binary is missing
\* (FileNotFoundError), it exits nonzero (CalledProcessError), its output is no
\* JSON (JSONDecodeError), or its output is a JSON object, with or without
\* "format", "duration" in it, the duration a number or text float() rejects.
Durations == {2, 5}

ProbeOutcomes ==
    { [kind |-> "notfound", duration |-> 0],
      [kind |-> "nonzero", duration |-> 0],
      [kind |-> "badjson", duration |-> 0],
      [kind |-> "noformat", duration |-> 0],
      [kind |-> "noduration", duration |-> 0],
      [kind |-> "malformed", duration |-> 0] }
    \cup {[kind |-> "ok", duration |-> d] : d \in Durations}

\* The exceptions get_audio_info catches
ProbeCaught == {"nonzero", "badjson"}

\* get_audio_info(file): the exception that leaves it, or the info it returns
\* ({} when it caught one)
get_audio_info(o) ==
    IF o.kind = "notfound" THEN [raised |-> "FileNotFoundError", info |-> "{}"]
    ELSE IF o.kind \in ProbeCaught THEN [raised |-> None, info |-> "{}"]
    ELSE IF o.kind = "noformat" THEN [raised |-> None, info |-> "{}"]
    ELSE [raised |-> None, info |-> o.kind]

\* One round of the loop of get_total_duration on the info of one file:
\* the exception float() raises, or the new max_duration
DurationStep(info, o, max_duration) ==
    IF info \in {"{}", "noduration"} THEN [raised |-> None, max |-> max_duration]
    ELSE IF info = "malformed" THEN [raised |-> "ValueError", max |-> max_duration]
    ELSE [raised |-> None,
          max |-> IF o.duration > max_duration THEN o.duration ELSE max_duration]

\* Whether the probe of a file failed: anything but a numeric duration
ProbeFailure(o) == o.kind # "ok"

-----------------------------------------------------------------------------
(* execute_ffmpeg *)

TimeLine == "size=1kB time=00:00:01.00 bitrate=1kbits/s"

ErrorLine == "Error opening input file"

LineKinds == {TimeLine, ErrorLine}

RECURSIVE SeqsUpTo(_, _)
SeqsUpTo(S, n) ==
    IF n = 0 THEN {<<>>}
    ELSE LET shorter == SeqsUpTo(S, n - 1)
         IN  shorter \cup {Append(s, x) : s \in shorter, x \in S}

\* The monitoring loop of execute_ffmpeg over everything the process writes to
\* stderr before it exits: one readline() per round, until readline() returns
\* "" at end of file with the process gone. `rest` is what is left in the
\* stream for the process.stderr.read() that follows the loop.
RECURSIVE MonitorLoop(_, _, _)
MonitorLoop(stream, read, progress) ==
    IF stream = <<>> THEN [read |-> read, progress |-> progress, rest |-> stream]
    ELSE MonitorLoop(Tail(stream), Append(read, Head(stream)),
                     IF Head(stream) = TimeLine THEN progress + 1 ELSE progress)

\* What execute_ffmpeg returns once the process has written `stream` and
\* exited with rc: (success, error detail as lines)
ExecuteResult(stream, rc) ==
    LET loop == MonitorLoop(stream, <<>>, 0)
        stderr_output == loop.rest
    IN  IF rc = 0 THEN [success |-> TRUE, error |-> <<>>]
        ELSE [success |-> FALSE, error |-> stderr_output]

\* The exceptions of the model, all subclasses of Exception
ExceptionSubclasses == {"FileNotFoundError", "ValueError", "OSError", "EOFError"}

\* execute_ffmpeg without its `except Exception`
ExecuteCatchesNothing(exc) == FALSE

\* `except Exception` of execute_ffmpeg: whether the exception is caught there
ExecuteCatches(exc) == exc \in ExceptionSubclasses

\* merge_audio_files with `except OSError` for `except Exception`
MergeCatchesOSError(exc) == exc \in {"FileNotFoundError", "OSError"}

\* `except Exception` of merge_audio_files
MergeCatches(exc) == exc \in ExceptionSubclasses

-----------------------------------------------------------------------------
(* delete_originals *)

\* What the user may type at the prompt; Eof is input() raising EOFError
Eof == <<"E", "O", "F">>

Answers == { <<"y">>, <<"Y">>, <<"n">>, <<"y", "e", "s">>, <<>> }

\* The prompt read as: delete unless the answer is "n"
ConfirmedUnlessNo(answer) == Lower(answer) # <<"n">>

\* if confirm == "y", confirm the answer in lower case
Confirmed(answer) == Lower(answer) = <<"y">>

\* if success and output_file.exists()
MergeSucceeded(success, exists) == success /\ exists

-----------------------------------------------------------------------------
(* The run *)

\* The formats a caller may pass: argparse admits mp3, wav, ogg and aac, a
\* caller of process_all_craig_folders any string.
Formats == {"mp3", "flac"}

NoJob == [folder |-> None, pos |-> 0, audio_files |-> <<>>, output_filename |-> <<>>,
          probed |-> 0, probeFailed |-> FALSE, max_duration |-> 0,
          built |-> FALSE, buildRaised |-> None, cmd |-> <<>>,
          launched |-> FALSE, emitted |-> <<>>, rc |-> 0,
          success |-> FALSE, error |-> <<>>, confirm |-> <<>>,
          returned |-> FALSE, result |-> FALSE, raised |-> None]

Init ==
    /\ pc = "CheckFfmpeg"
    /\ output_format \in Formats
    /\ quality_level = "medium"
    /\ delete_originals \in BOOLEAN
    /\ dry_run \in BOOLEAN
    /\ ffmpegProbe = Unchecked
    /\ craig_folders = <<>>
    /\ idx = 0
    /\ successful = 0
    /\ failed = 0
    /\ summary = <<>>
    /\ reports = <<>>
    /\ clock = 0
    /\ job = NoJob
    /\ results = <<>>
    /\ processed = <<>>
    /\ outputs = {}
    /\ overwritten = FALSE
    /\ deleted = {}
    /\ merged = {}
    /\ launchFailed = {}
    /\ mixLaunched = FALSE
    /\ probeLaunched = FALSE

args == <<output_format, quality_level, delete_originals, dry_run>>

effects == <<outputs, overwritten, deleted, merged, launchFailed, mixLaunched>>

counters == <<successful, failed, results>>

\* if not self.check_ffmpeg(): return
CheckFfmpeg ==
    /\ pc = "CheckFfmpeg"
    /\ \E r \in FfmpegOutcomes :
        /\ ffmpegProbe' = r
        /\ pc' = IF check_ffmpeg(r) THEN "Detect" ELSE "Done"
    /\ UNCHANGED <<args, craig_folders, idx, counters, summary, reports, clock, job,
                   processed, effects, probeLaunched>>

\* detect_craig_folders()
detect_craig_folders(entries) ==
    SelectSeq(entries, LAMBDA e : Entries[e].isdir /\ craig_pattern(Entries[e].name))

\* craig_folders = self.detect_craig_folders() on a base directory that
\* iterdir() lists as `listing`, the return when no folder matches, and the
\* entry into the dry-run report or the processing loop
DetectFolders ==
    /\ pc = "Detect"
    /\ \E listing \in DistinctSeqs(EntryIds, MaxEntries) :
           craig_folders' = detect_craig_folders(listing)
    /\ idx' = 1
    /\ pc' = IF craig_folders' = <<>> THEN "Done"
             ELSE IF dry_run THEN "DryRun" ELSE "Loop"
    /\ UNCHANGED <<args, ffmpegProbe, counters, summary, reports, clock, job,
                   processed, effects, probeLaunched>>

\* base_directory.iterdir() raises (the directory is missing or unreadable):
\* nothing in process_all_craig_folders catches it
DetectRaises ==
    /\ pc = "Detect"
    /\ pc' = "Crashed"
    /\ UNCHANGED <<args, ffmpegProbe, craig_folders, idx, counters, summary, reports,
                   clock, job, processed, effects, probeLaunched>>

\* One round of `for folder in craig_folders` of the dry run, and the return
\* after the last
DryRunReport ==
    /\ pc = "DryRun"
    /\ \E enum \in Enumerations(Entries[craig_folders[idx]].files), now \in clock..MaxTime :
        /\ clock' = now
        /\ reports' = Append(reports,
               [folder |-> craig_folders[idx],
                count |-> Len(scan_audio_files(enum)),
                name |-> generate_output_filename(Entries[craig_folders[idx]].name,
                                                  output_format, now)])
    /\ idx' = idx + 1
    /\ pc' = IF idx = Len(craig_folders) THEN "Done" ELSE "DryRun"
    /\ UNCHANGED <<args, ffmpegProbe, craig_folders, counters, summary, job,
                   processed, effects, probeLaunched>>

\* The loop counting every folder as merged
SuccessfulAfterAlways(result, n) == n + 1

\* successful += 1 / failed += 1 after merge_audio_files returned result
SuccessfulAfter(result, n) == IF result THEN n + 1 ELSE n

FailedAfter(result, n) == IF result THEN n ELSE n + 1

\* What is left of a merge_audio_files call once it has returned: its locals
\* that held text (the file list, the command, the diagnostics) are gone
Returned(j, result, raised) ==
    [j EXCEPT !.returned = TRUE, !.result = result, !.raised = raised,
              !.audio_files = <<>>, !.cmd = <<>>, !.emitted = <<>>, !.error = <<>>,
              !.max_duration = 0]

\* merge_audio_files returns result (raised: the exception its `except
\* Exception` caught, if any) and the loop of process_all_craig_folders counts
\* it and goes to the next folder
Returns(j, result, raised) ==
    /\ job' = Returned(j, result, raised)
    /\ results' = Append(results, result)
    /\ successful' = SuccessfulAfter(result, successful)
    /\ failed' = FailedAfter(result, failed)
    /\ idx' = idx + 1
    /\ pc' = "Loop"

\* An exception reaches the `except Exception` of merge_audio_files, which
\* logs it and returns False; one it does not catch ends the run
Raises(j, exc) ==
    IF MergeCatches(exc) THEN Returns(j, FALSE, exc)
    ELSE /\ job' = [j EXCEPT !.raised = exc]
         /\ pc' = "Crashed"
         /\ UNCHANGED <<idx, counters>>

\* The head of merge_audio_files: scan_audio_files, the return when nothing
\* is found, generate_output_filename
MergeScan ==
    /\ pc = "Loop"
    /\ idx <= Len(craig_folders)
    /\ processed' = Append(processed, craig_folders[idx])
    /\ \E enum \in Enumerations(Entries[craig_folders[idx]].files), now \in clock..MaxTime :
        LET audio_files == scan_audio_files(enum)
            j == [NoJob EXCEPT !.folder = craig_folders[idx], !.pos = idx,
                               !.audio_files = audio_files]
        IN  /\ clock' = now
            /\ IF audio_files = <<>>
               THEN Returns(j, FALSE, None)
               ELSE /\ job' = [j EXCEPT !.output_filename =
                                   generate_output_filename(
                                       Entries[craig_folders[idx]].name, output_format, now)]
                    /\ pc' = "Probe"
                    /\ UNCHANGED <<idx, counters>>
    /\ UNCHANGED <<args, ffmpegProbe, craig_folders, summary, reports, effects,
                   probeLaunched>>

\* One round of the loop of get_total_duration: get_audio_info on the next
\* file. An exception that leaves it is caught by merge_audio_files.
ProbeFile ==
    /\ pc = "Probe"
    /\ probeLaunched' = TRUE
    /\ \E o \in ProbeOutcomes :
        LET got == get_audio_info(o)
            step == DurationStep(got.info, o, job.max_duration)
            j == [job EXCEPT !.probed = job.probed + 1,
                             !.probeFailed = job.probeFailed \/ ProbeFailure(o),
                             !.max_duration = step.max]
        IN  IF got.raised # None THEN Raises(j, got.raised)
            ELSE IF step.raised # None THEN Raises(j, step.raised)
            ELSE /\ job' = j
                 /\ pc' = IF j.probed = Len(j.audio_files) THEN "Build" ELSE "Probe"
                 /\ UNCHANGED <<idx, counters>>
    /\ UNCHANGED <<args, ffmpegProbe, craig_folders, summary, reports, clock,
                   processed, effects>>

\* cmd = self.build_ffmpeg_command(...)
BuildCommand ==
    /\ pc = "Build"
    /\ LET paths == [i \in 1..Len(job.audio_files) |-> PathOf(job.folder, job.audio_files[i])]
           b == build_ffmpeg_command(paths, job.output_filename, output_format, quality_level)
           j == [job EXCEPT !.built = TRUE, !.buildRaised = b.raised, !.cmd = b.cmd]
       IN  IF b.raised # None THEN Raises(j, b.raised)
           ELSE /\ job' = j
                /\ pc' = "Execute"
                /\ UNCHANGED <<idx, counters>>
    /\ UNCHANGED <<args, ffmpegProbe, craig_folders, summary, reports, clock,
                   processed, effects, probeLaunched>>

\* success, error = self.execute_ffmpeg(cmd, total_duration): Popen raises, or
\* the process starts, writes its diagnostics, maybe its output file, and exits
ExecuteFfmpeg ==
    /\ pc = "Execute"
    /\ \/ /\ launchFailed' = launchFailed \cup {idx}
          /\ IF ExecuteCatches("OSError")
             THEN /\ job' = [job EXCEPT !.success = FALSE, !.error = <<"OSError">>]
                  /\ pc' = "Post"
                  /\ UNCHANGED <<idx, counters>>
             ELSE Raises(job, "OSError")
          /\ UNCHANGED <<outputs, overwritten, mixLaunched>>
       \/ /\ mixLaunched' = TRUE
          /\ \E stream \in SeqsUpTo(LineKinds, MaxLines), rc \in {0, 1}, wrote \in BOOLEAN :
              LET r == ExecuteResult(stream, rc)
              IN  /\ job' = [job EXCEPT !.launched = TRUE, !.emitted = stream, !.rc = rc,
                                        !.success = r.success, !.error = r.error]
                  /\ outputs' = IF wrote THEN outputs \cup {job.output_filename} ELSE outputs
                  /\ overwritten' =
                         (overwritten \/
                             (wrote /\ \E m \in merged : m.output = job.output_filename))
          /\ pc' = "Post"
          /\ UNCHANGED <<launchFailed, idx, counters>>
    /\ UNCHANGED <<args, ffmpegProbe, craig_folders, summary, reports,
                   clock, processed, deleted, merged, probeLaunched>>

\* The files delete_originals unlinks when unlink fails on those in `kept`
Unlinked(folder, files, kept) == {<<folder, files[i]>> : i \in 1..Len(files)} \ kept

\* The tail of merge_audio_files: `if success and output_file.exists()`, the
\* probe of the output file, delete_originals, and the return
PostMerge ==
    /\ pc = "Post"
    /\ IF MergeSucceeded(job.success, job.output_filename \in outputs)
       THEN /\ merged' = merged \cup {[pos |-> idx, output |-> job.output_filename]}
            /\ probeLaunched' = TRUE
            /\ \E o \in ProbeOutcomes :
                LET got == get_audio_info(o)
                    step == DurationStep(got.info, o, 0)
                IN  IF got.raised # None
                    THEN Raises(job, got.raised) /\ UNCHANGED deleted
                    ELSE IF step.raised # None
                    THEN Raises(job, step.raised) /\ UNCHANGED deleted
                    ELSE IF ~delete_originals
                    THEN Returns(job, TRUE, None) /\ UNCHANGED deleted
                    ELSE \E answer \in Answers \cup {Eof} :
                           IF answer = Eof
                           THEN Raises(job, "EOFError") /\ UNCHANGED deleted
                           ELSE /\ Returns([job EXCEPT !.confirm = Lower(answer)], TRUE, None)
                                /\ IF Confirmed(answer)
                                   THEN \E kept \in {{}} \cup
                                              {{<<job.folder, job.audio_files[1]>>}} :
                                          deleted' = deleted \cup
                                              Unlinked(job.folder, job.audio_files, kept)
                                   ELSE UNCHANGED deleted
       ELSE /\ Returns(job, FALSE, None)
            /\ UNCHANGED <<merged, probeLaunched, deleted>>
    /\ UNCHANGED <<args, ffmpegProbe, craig_folders, summary, reports, clock,
                   processed, outputs, overwritten, launchFailed, mixLaunched>>

\* The summary logged after the loop
Summary ==
    /\ pc = "Loop"
    /\ idx > Len(craig_folders)
    /\ summary' = <<[total |-> Len(craig_folders), successful |-> successful,
                     failed |-> failed]>>
    /\ pc' = "Done"
    /\ UNCHANGED <<args, ffmpegProbe, craig_folders, idx, counters, reports, clock, job,
                   processed, effects, probeLaunched>>

Next ==
    \/ CheckFfmpeg
    \/ DetectFolders
    \/ DetectRaises
    \/ DryRunReport
    \/ MergeScan
    \/ ProbeFile
    \/ BuildCommand
    \/ ExecuteFfmpeg
    \/ PostMerge
    \/ Summary

Spec == Init /\ [][Next]_vars


-----------------------------------------------------------------------------
(* Properties *)

\* Number of entries of the sequence of booleans s equal to b
Count(s, b) == Cardinality({i \in 1..Len(s) : s[i] = b})

\* detect_craig_folders has returned
Discovered == idx >= 1

\* The formats codec_map of build_ffmpeg_command knows, written out
KnownFormats == {"mp3", "wav", "ogg", "aac"}

\* C1: in a non-dry run whose tool check passed and that found folders, the
\* folders are processed once each, in the order found; a folder that fails
\* (nothing to merge, ffmpeg exits nonzero, an exception) adds exactly one to
\* failed and the loop goes on; at the summary successful + failed is the
\* number of folders found.
C1_EveryFolderCountedOnce ==
    /\ processed = SubSeq(craig_folders, 1, Len(processed))
    /\ Len(results) \in {Len(processed), Len(processed) - 1}
    /\ (pc = "Loop" => Len(results) = Len(processed) /\ idx = Len(processed) + 1)
    /\ successful = Count(results, TRUE)
    /\ failed = Count(results, FALSE)
    /\ (job.returned /\ (job.raised # None \/ job.output_filename = <<>>
                           \/ (job.launched /\ job.rc # 0))
          => results[Len(results)] = FALSE)
    /\ (summary # <<>> =>
          /\ processed = craig_folders
          /\ Len(results) = Len(craig_folders)
          /\ summary[1].total = Len(craig_folders)
          /\ summary[1].successful + summary[1].failed = Len(craig_folders)
          /\ summary[1].failed = Count(results, FALSE))

\* A failed folder was followed by a merged one, and the summary was logged
C1_Witness ==
    /\ summary # <<>>
    /\ results = <<FALSE, TRUE>>
    /\ summary[1].failed = 1

\* C2 as stated: once discovery has succeeded, a run that ends has logged the
\* summary, whichever branch it took.
C2_SummaryOnEveryBranch == (pc = "Done" /\ Discovered) => summary # <<>>

\* Steps a non-dry run still has to take before it has logged the summary, at
\* most: the rounds of the probe loop left, the steps of the folder in hand,
\* the folders left, the summary
StepsLeft ==
    LET perFolder == 5 + Cardinality(UNION {Entries[e].files : e \in EntryIds})
        foldersLeft == Len(craig_folders) - Len(processed)
        inHand == CASE pc = "Probe" -> 3 + (Len(job.audio_files) - job.probed)
                    [] pc = "Build" -> 3
                    [] pc = "Execute" -> 2
                    [] pc = "Post" -> 1
                    [] OTHER -> 0
    IN  IF pc = "Done" THEN 0 ELSE 1 + inHand + perFolder * foldersLeft

\* The run stands at a step of the processing loop that the code takes: the
\* head of a round or the summary after the last, or a step of the merge of
\* the folder in hand
AtLoopStep ==
    \/ pc = "Loop" /\ idx \in 1..(Len(craig_folders) + 1)
    \/ pc = "Probe" /\ job.probed < Len(job.audio_files)
    \/ pc \in {"Build", "Execute", "Post"}

\* C2, amended: once discovery has found at least one folder and dry-run mode
\* is off, the run reaches the summary, whatever the folders do: it never
\* ends without it, it stands at a step of the loop until it has logged it,
\* and every step brings the summary closer.
C2_SummaryAfterProcessing ==
    /\ [](Discovered /\ ~dry_run /\ craig_folders # <<>> =>
            /\ pc # "Crashed"
            /\ (pc = "Done" <=> summary # <<>>)
            /\ (pc # "Done" => AtLoopStep))
    /\ [][Discovered /\ ~dry_run /\ craig_folders # <<>> => StepsLeft' < StepsLeft]_vars

\* Every folder of a non-dry run failed and the summary was logged
C2_Witness ==
    /\ summary # <<>>
    /\ ~dry_run
    /\ Len(craig_folders) = 2
    /\ failed = 2

\* C3 as stated: after the mixing tool failed to launch for a folder, no later
\* folder is processed.
C3_LaunchFailureAbortsRun == \A i \in launchFailed : Len(processed) <= i

\* C3, amended: a launch failure inside execute_ffmpeg is caught there and
\* returned as a failure with the exception's text; the folder counts as one
\* failed folder, the run goes on and ends with the summary over every folder.
C3_LaunchFailureIsFolderScoped ==
    \A i \in launchFailed :
        /\ pc # "Crashed"
        /\ (job.pos = i => /\ job.raised = None
                           /\ ~job.launched
                           /\ (pc = "Post" => ~job.success /\ job.error = <<"OSError">>)
                           /\ (job.returned => ~job.result))
        /\ (Len(results) >= i => results[i] = FALSE)
        /\ (pc = "Done" => summary # <<>> /\ processed = craig_folders)

\* The first folder's launch failed and the second folder was merged
C3_Witness ==
    /\ launchFailed = {1}
    /\ results = <<FALSE, TRUE>>
    /\ \E m \in merged : m.pos = 2

\* `ffmpeg -version` printed a version of at least 4.0
VersionAtLeast4(r) == r.kind = "version" /\ ToInt(r.major) >= 4

\* C4: a mixing process is launched, an output written, an input deleted only
\* if the tool check found ffmpeg at version 4.0 or later and dry-run mode is
\* off; a failed tool check ends the run before discovery; a dry run launches
\* no mixing or probing process and reports every folder found with its file
\* count and projected output name.
C4_EffectsOnlyAfterToolCheck ==
    /\ (mixLaunched \/ outputs # {} \/ deleted # {} \/ processed # <<>>)
          => (VersionAtLeast4(ffmpegProbe) /\ ~dry_run)
    /\ (ffmpegProbe # Unchecked /\ ~VersionAtLeast4(ffmpegProbe))
          => (pc = "Done" /\ ~Discovered /\ craig_folders = <<>> /\ reports = <<>>)
    /\ dry_run => (~mixLaunched /\ ~probeLaunched /\ processed = <<>>
                   /\ outputs = {} /\ deleted = {})
    /\ (dry_run /\ Discovered /\ craig_folders # <<>>) =>
          /\ Len(reports) = idx - 1
          /\ (pc = "Done" => Len(reports) = Len(craig_folders))
          /\ \A i \in 1..Len(reports) :
                /\ reports[i].folder = craig_folders[i]
                /\ reports[i].count =
                       Cardinality({f \in Entries[craig_folders[i]].files :
                                       \E k \in 1..Len(supported_formats) :
                                           EndsWith(f, supported_formats[k])})
                /\ reports[i].name[1] = "merged_"
                /\ reports[i].name[Len(reports[i].name)] = output_format

\* A run merged a folder and deleted its inputs
C4_Witness == mixLaunched /\ outputs # {} /\ deleted # {} /\ pc = "Done"

\* C5: input files are deleted only by the folder's own merge, after ffmpeg
\* exited 0 and the output exists, with delete_originals set and the prompt
\* answered 'y' (read in lower case); nothing else deletes, and every deleted
\* file lies in a folder whose merge succeeded.
C5_DeleteOnlyAfterConfirmedSuccess ==
    /\ [](\A d \in deleted :
            /\ delete_originals
            /\ d[2] \in Entries[d[1]].files
            /\ \E m \in merged : craig_folders[m.pos] = d[1])
    /\ [][deleted' # deleted =>
            /\ pc = "Post"
            /\ delete_originals
            /\ job.launched /\ job.rc = 0 /\ job.success
            /\ job.output_filename \in outputs
            /\ job'.confirm = <<"y">>
            /\ job'.result
            /\ \A d \in deleted' \ deleted : d[1] = job.folder
            /\ \E m \in merged' : m.pos = job.pos]_vars

\* A folder's inputs were deleted after the prompt was answered yes
C5_Witness == deleted # {} /\ job.returned /\ job.confirm = <<"y">> /\ job.result

F2 == <<"f", "2", ".", "a", "a", "c">>

F10 == <<"f", "1", "0", ".", "a", "a", "c">>

\* "[i:a]" for the positions the model reaches, written out
ExpectedLabels == <<"[0:a]", "[1:a]", "[2:a]", "[3:a]">>

\* The amix stage for the input counts the model reaches, written out
ExpectedAmix ==
    <<"", "amix=inputs=2:duration=longest:dropout_transition=2",
      "amix=inputs=3:duration=longest:dropout_transition=2",
      "amix=inputs=4:duration=longest:dropout_transition=2">>

\* The command cmd holds the files of `folder` as "-i <path>" pairs in list
\* order and a filter graph over [0:a]..[N-1:a] in order, mapped from [out]
CommandMatches(folder, files, cmd) ==
    LET n == Len(files)
        filter == cmd[2 * n + 4]
    IN  /\ cmd[1] = <<"ffmpeg">> /\ cmd[2] = <<"-y">>
        /\ \A i \in 1..n : /\ cmd[2 * i + 1] = <<"-i">>
                           /\ cmd[2 * i + 2] = PathOf(folder, files[i])
        /\ Cardinality({i \in 1..Len(cmd) : cmd[i] = <<"-i">>}) = n
        /\ cmd[2 * n + 3] = <<"-filter_complex">>
        /\ IF n = 1
           THEN filter = <<"[0:a]", "loudnorm=I=-16:TP=-1.5:LRA=11", "[out]">>
           ELSE /\ Len(filter) = n + 4
                /\ \A i \in 1..n : filter[i] = ExpectedLabels[i]
                /\ filter[n + 1] = ExpectedAmix[n]
                /\ filter[n + 2] = ","
                /\ filter[n + 3] = "loudnorm=I=-16:TP=-1.5:LRA=11"
                /\ filter[n + 4] = "[out]"
        /\ cmd[2 * n + 5] = <<"-map">>
        /\ cmd[2 * n + 6] = <<"[out]">>

\* C6: the command built for N input files holds exactly N "-i <path>" pairs
\* in the order of the list, which is the natural order of the names (f2 before
\* f10); its filter graph names [0:a]..[N-1:a] in order: loudnorm alone for
\* N = 1, amix with inputs=N then loudnorm after a comma for N > 1, labelled
\* [out] and mapped with "-map [out]". The same holds of the command built
\* for every non-empty prefix of the list.
C6_CommandFollowsInputOrder ==
    (pc = "Execute") =>
        LET files == job.audio_files
            n == Len(files)
        IN  /\ n >= 1
            /\ \A i, k \in 1..n : i < k => ~SortLess(files[k], files[i])
            /\ \A i, k \in 1..n : (files[i] = F10 /\ files[k] = F2) => k < i
            /\ CommandMatches(job.folder, files, job.cmd)
            /\ \A m \in 1..n :
                  LET some == SubSeq(files, 1, m)
                      b == build_ffmpeg_command(
                               [i \in 1..m |-> PathOf(job.folder, some[i])],
                               job.output_filename, output_format, quality_level)
                  IN  b.raised = None /\ CommandMatches(job.folder, some, b.cmd)

\* A command was built for three inputs, f10 among them
C6_Witness ==
    /\ pc = "Execute"
    /\ Len(job.audio_files) = 3
    /\ job.audio_files[3] = F10

\* C7 as stated: when command construction fails, no external process was
\* started for the folder's merge job and no command was returned.
C7_NoProcessBeforeBuildFails ==
    (job.built /\ job.buildRaised # None) =>
        (job.probed = 0 /\ ~job.launched /\ job.cmd = <<>>)

\* C7, amended: on an empty input list or a format outside mp3, wav, ogg, aac
\* command construction raises ValueError and returns no command; the folder's
\* merge starts no mixing process and fails. The probing tool has by then been
\* run on every input file of the folder.
C7_BuildFailsBeforeMixing ==
    /\ LET b == build_ffmpeg_command(<<>>, job.output_filename, output_format,
                                     quality_level)
       IN  b.raised = "ValueError" /\ b.cmd = <<>>
    /\ (job.built /\ output_format \notin KnownFormats) =>
          /\ job.buildRaised = "ValueError"
          /\ job.cmd = <<>>
          /\ ~job.launched
          /\ job.returned /\ ~job.result
          /\ job.probed = Cardinality({f \in Entries[job.folder].files :
                                          \E k \in 1..Len(supported_formats) :
                                              EndsWith(f, supported_formats[k])})
          /\ (\A m \in merged : m.pos # job.pos)
    /\ (job.built /\ output_format \in KnownFormats) => job.buildRaised = None

\* Command construction failed on an unsupported format after the probes
C7_Witness ==
    /\ job.built /\ job.returned
    /\ output_format = "flac"
    /\ job.probed = 3
    /\ probeLaunched /\ ~mixLaunched

\* C8: a failed probe of an input file is never propagated: the merge of the
\* folder still reaches command construction.
C8_ProbeFailureIsSoft == (job.returned /\ job.probeFailed) => job.built

\* C9: execute_ffmpeg succeeds exactly when the exit code is 0, and on a
\* nonzero exit code its error detail is everything the process wrote to
\* its diagnostic stream.
C9_ErrorDetailIsFullDiagnostics ==
    (pc = "Post" /\ job.launched) =>
        /\ job.success = (job.rc = 0)
        /\ (job.rc # 0 => job.error = job.emitted)

\* C10: the output file of an earlier successful merge of the run is never
\* written again by a later folder's merge.
C10_OutputNeverOverwritten == ~overwritten

====
